---- MODULE Spec2Model ----
(***************************************************************************)
(* The workstream store of local-mem (src/src/storage.py, src/src/types.py)*)
(* as a state machine: a WorkstreamStorage instance, its in-memory dict of *)
(* workstreams and the JSON file it rewrites on every mutation; and a      *)
(* second instance on the same file, which waits while the first runs.     *)
(*                                                                         *)
(* Encodings.  Python's None is the string None; Optional[str] values are  *)
(* strings, so "" and None stay distinct.  A dict str -> Workstream is a   *)
(* sequence of records in insertion order with pairwise distinct ids.  A   *)
(* JSON object is a function from its keys.  Timestamps are clock ticks.   *)
(* A call that never returns leaves status = "hung".                       *)
(*                                                                         *)
(* Specifications.  Spec: create, update, delete and set_parent with every *)
(* choice of parent.  SpecFresh: Spec where no generated id repeats one of *)
(* the store.  SpecFields: all calls, with requests that set the fields.   *)
(* SpecNotes: the calls that write notes.  SpecSuggest: the relationship   *)
(* heuristics of src/src/heuristics.py on stores of two entities.          *)
(* SpecSuggestMany: the heuristics and the tree view on stores of three    *)
(* entities.  SpecTwo: two instances that take turns on one file.          *)
(***************************************************************************)
EXTENDS Integers, Sequences, FiniteSets, TLC

VARIABLES
    workstreams,    \* WorkstreamStorage._workstreams, in insertion order
    file,           \* the data file: [exists, data] with data the JSON array
    clock,          \* the wall clock read by time.time() and datetime.now()
    nops,           \* number of store calls made so far
    status,         \* "idle", or "hung" when a call never returns
    last,           \* the last call: [op, id, arg, result]
    other           \* the instance that waits: [instance, workstreams]

vars == <<workstreams, file, clock, nops, status, last, other>>

-----------------------------------------------------------------------------
(* Bounds of the model *)

MaxOps == 4
MaxOpsF == 3
MaxOpsN == 4
MaxCalls == 1
MaxCallsM == 2
MaxOpsT == 3
ManyKeywords == 14
MaxClock == 1

(* Input universes *)

None == "None"
Suffixes == {"a", "b"}
UnknownId == "ws-x"

\* storage.py:63-68: f"ws-{int(time.time() * 1000)}-{random_part}"
_generate_id(ms, random_part) == "ws-" \o ToString(ms) \o "-" \o random_part

\* Python truthiness of an Optional[str]
Truthy(s) == s # None /\ s # ""

-----------------------------------------------------------------------------
(* The dict of workstreams *)

Keys(ws) == {ws[i].id : i \in DOMAIN ws}
Has(ws, id) == id \in Keys(ws)
IndexOf(ws, id) == CHOOSE i \in DOMAIN ws : ws[i].id = id
Get(ws, id) == ws[IndexOf(ws, id)]
\* d[k] = v: an existing key keeps its position, a new key goes last
Put(ws, w) == IF Has(ws, w.id) THEN [ws EXCEPT ![IndexOf(ws, w.id)] = w] ELSE Append(ws, w)
\* Del as a cascading delete would do it: the children go too
Del_Cascade(ws, id) == SelectSeq(ws, LAMBDA w : w.id # id /\ w.parent_id # id)
\* del d[k]
Del(ws, id) == SelectSeq(ws, LAMBDA w : w.id # id)

-----------------------------------------------------------------------------
(* Optional lists and dicts of a request: Nil is None, Some(v) is the value *)

Nil == <<>>
Some(v) == <<v>>
IsSome(o) == o # Nil
Val(o) == o[1]

-----------------------------------------------------------------------------
(* types.py: WorkstreamMetadata and Workstream, and their JSON forms *)

KnownKeys == {"hostIps", "connectionInfo", "testingInfo"}

\* dict.get(key, default)
DictGet(data, key, default) == IF key \in DOMAIN data THEN data[key] ELSE default

\* WorkstreamMetadata.from_dict
MetadataFromDict(data) ==
    [host_ips        |-> DictGet(data, "hostIps", <<>>),
     connection_info |-> DictGet(data, "connectionInfo", None),
     testing_info    |-> DictGet(data, "testingInfo", None),
     extra           |-> [k \in (DOMAIN data) \ KnownKeys |-> data[k]]]

\* WorkstreamMetadata.to_dict: falsy known fields are left out, then
\* result.update(self.extra)
MetadataToDict(m) ==
    LET hostIps == IF m.host_ips # <<>> THEN ("hostIps" :> m.host_ips) ELSE <<>>
        conn    == IF Truthy(m.connection_info)
                   THEN ("connectionInfo" :> m.connection_info) ELSE <<>>
        testing == IF Truthy(m.testing_info)
                   THEN ("testingInfo" :> m.testing_info) ELSE <<>>
    IN  m.extra @@ testing @@ conn @@ hostIps

\* Workstream.to_dict: parentId is written only when parent_id is truthy
WorkstreamToDict(w) ==
    LET result == [id        |-> w.id,
                   name      |-> w.name,
                   summary   |-> w.summary,
                   tags      |-> w.tags,
                   metadata  |-> MetadataToDict(w.metadata),
                   notes     |-> w.notes,
                   createdAt |-> w.created_at,
                   updatedAt |-> w.updated_at]
    IN  IF Truthy(w.parent_id) THEN ("parentId" :> w.parent_id) @@ result ELSE result

\* Workstream.from_dict
WorkstreamFromDict(data, now) ==
    [id         |-> data["id"],
     name       |-> data["name"],
     summary    |-> data["summary"],
     tags       |-> DictGet(data, "tags", <<>>),
     metadata   |-> MetadataFromDict(DictGet(data, "metadata", <<>>)),
     notes      |-> DictGet(data, "notes", <<>>),
     parent_id  |-> DictGet(data, "parentId", None),
     created_at |-> DictGet(data, "createdAt", now),
     updated_at |-> DictGet(data, "updatedAt", now)]

-----------------------------------------------------------------------------
(* storage.py: _save and _load *)

\* _save: the whole collection, in dict order, replaces the file
SaveFile(ws) == [exists |-> TRUE, data |-> [i \in DOMAIN ws |-> WorkstreamToDict(ws[i])]]

RECURSIVE DictFromList(_, _, _)
\* {w["id"]: Workstream.from_dict(w) for w in data}
DictFromList(data, now, acc) ==
    IF data = <<>> THEN acc
    ELSE DictFromList(Tail(data), now, Put(acc, WorkstreamFromDict(Head(data), now)))

\* _load: a missing file gives the empty dict
LoadFile(f, now) == IF f.exists THEN DictFromList(f.data, now, <<>>) ELSE <<>>

-----------------------------------------------------------------------------
(* Inputs of the calls *)

\* ids a caller may name: the ids of the store, and one that is in no store
TargetIds == Keys(workstreams) \cup {UnknownId}
\* parent ids a caller may name: None, the empty string, and the ids above
ParentArgs == {None, ""} \cup TargetIds

\* Spec: requests that differ in the hierarchy they ask for
CreateRequests ==
    [name : {"n1"}, summary : {"s1"}, tags : {<<>>}, metadata : {Nil},
     parent_id : ParentArgs]
UpdateRequests ==
    [id : TargetIds, name : {None}, summary : {None}, tags : {Nil},
     metadata : {Nil}, parent_id : ParentArgs]
\* SpecFields: requests that differ in the fields they set
CreateRequestsF ==
    [name : {"n1"}, summary : {"s1"}, tags : {<<>>, <<"t1", "t1">>},
     metadata : {Some("connectionInfo" :> "ssh")}, parent_id : {None}]
UpdateRequestsF ==
    [id : TargetIds, name : {None, "n2"}, summary : {None, "s2"},
     tags : {Nil, Some(<<>>), Some(<<"t2">>)},
     metadata : {Nil, Some("env" :> "prod")}, parent_id : {None, ""}]
AddTagsListsF == {<<"t2", "t3">>}
NoteTextsF == {"note"}
\* SpecNotes: requests that leave everything but the notes alone
CreateRequestsN ==
    [name : {"n1"}, summary : {"s1"}, tags : {<<>>}, metadata : {Nil},
     parent_id : {None}]

-----------------------------------------------------------------------------
(* storage.py: create *)

\* storage.py:74-86: the new Workstream
NewWorkstream(request, id, now) ==
    [id         |-> id,
     name       |-> request.name,
     summary    |-> request.summary,
     tags       |-> request.tags,
     metadata   |-> MetadataFromDict(IF IsSome(request.metadata)
                                     THEN Val(request.metadata) ELSE <<>>),
     notes      |-> <<>>,
     parent_id  |-> request.parent_id,
     created_at |-> now,
     updated_at |-> now]

\* a call is made: the instance is not stuck in an earlier call
Calling(budget) == status = "idle" /\ nops < budget

Returned(op, id, arg, result) ==
    /\ last' = [op |-> op, id |-> id, arg |-> arg, result |-> result]
    /\ nops' = nops + 1
    /\ UNCHANGED <<clock, other>>

\* Create on an instance that reads the file again before it adds the entity
Create_Reloading(requests, budget, fresh) ==
    /\ Calling(budget)
    /\ \E request \in requests, random_part \in Suffixes :
          LET workstream == NewWorkstream(request, _generate_id(clock, random_part), clock)
          IN  /\ fresh => ~Has(workstreams, workstream.id)
              /\ workstreams' = Put(LoadFile(file, clock), workstream)
              /\ file' = SaveFile(workstreams')
              /\ Returned("create", workstream.id, request, "ok")
    /\ UNCHANGED status

\* storage.py:70-90.  The code does not look the generated id up in the dict;
\* with fresh the draws of random.choices are assumed never to repeat an id
\* of the store.
Create(requests, budget, fresh) ==
    /\ Calling(budget)
    /\ \E request \in requests, random_part \in Suffixes :
          LET workstream == NewWorkstream(request, _generate_id(clock, random_part), clock)
          IN  /\ fresh => ~Has(workstreams, workstream.id)
              /\ workstreams' = Put(workstreams, workstream)
              /\ file' = SaveFile(workstreams')
              /\ Returned("create", workstream.id, request, "ok")
    /\ UNCHANGED status

-----------------------------------------------------------------------------
(* storage.py: update *)

\* storage.py:109-110
UpdateName(w, request) ==
    IF request.name # None THEN [w EXCEPT !.name = request.name] ELSE w

\* storage.py:111-112
UpdateSummary(w, request) ==
    IF request.summary # None THEN [w EXCEPT !.summary = request.summary] ELSE w

\* UpdateTags as a merge would do it: the request's tags follow the old ones
UpdateTags_Merge(w, request) ==
    IF IsSome(request.tags) THEN [w EXCEPT !.tags = @ \o Val(request.tags)] ELSE w

\* storage.py:113-114
UpdateTags(w, request) ==
    IF IsSome(request.tags) THEN [w EXCEPT !.tags = Val(request.tags)] ELSE w

\* storage.py:115-119: existing_metadata.update(request.metadata)
UpdateMetadata(w, request) ==
    IF IsSome(request.metadata)
    THEN [w EXCEPT !.metadata =
              MetadataFromDict(Val(request.metadata) @@ MetadataToDict(w.metadata))]
    ELSE w

\* UpdateParent without the sentinel: the empty string is stored as it comes
UpdateParent_KeepEmpty(w, request) ==
    IF request.parent_id # None THEN [w EXCEPT !.parent_id = request.parent_id] ELSE w

\* storage.py:120-122: the empty string clears the parent; no other check
UpdateParent(w, request) ==
    IF request.parent_id # None
    THEN [w EXCEPT !.parent_id = IF request.parent_id # "" THEN request.parent_id ELSE None]
    ELSE w

\* storage.py:108-124
UpdateFields(w, request, now) ==
    [UpdateParent(UpdateMetadata(UpdateTags(UpdateSummary(UpdateName(w, request),
         request), request), request), request) EXCEPT !.updated_at = now]

Update(requests, budget) ==
    /\ Calling(budget)
    /\ \E request \in requests :
          IF Has(workstreams, request.id)
          THEN /\ workstreams' = Put(workstreams,
                                     UpdateFields(Get(workstreams, request.id), request, clock))
               /\ file' = SaveFile(workstreams')
               /\ Returned("update", request.id, request, "ok")
          ELSE /\ UNCHANGED <<workstreams, file>>
               /\ Returned("update", request.id, request, "none")
    /\ UNCHANGED status

-----------------------------------------------------------------------------
(* storage.py: delete *)

Delete(budget) ==
    /\ Calling(budget)
    /\ \E id \in TargetIds :
          IF Has(workstreams, id)
          THEN /\ workstreams' = Del(workstreams, id)
               /\ file' = SaveFile(workstreams')
               /\ Returned("delete", id, None, "true")
          ELSE /\ UNCHANGED <<workstreams, file>>
               /\ Returned("delete", id, None, "false")
    /\ UNCHANGED status

-----------------------------------------------------------------------------
(* storage.py: add_tags and add_note *)

SeqToSet(s) == {s[i] : i \in DOMAIN s}
\* list(set): every element once, in an order the set's iteration decides
ListsOfSet(S) ==
    {l \in [1..Cardinality(S) -> S] : \A x \in S : \E i \in DOMAIN l : l[i] = x}

\* unique_tags when add_tags toggles: a tag the entity carries already is
\* taken off
unique_tags_Toggle(workstream_tags, tags) ==
    (SeqToSet(workstream_tags) \ SeqToSet(tags))
        \cup (SeqToSet(tags) \ SeqToSet(workstream_tags))

\* storage.py:147-148: set(workstream.tags), then update(tags)
unique_tags(workstream_tags, tags) == SeqToSet(workstream_tags) \cup SeqToSet(tags)

AddTags(lists, budget) ==
    /\ Calling(budget)
    /\ \E id \in TargetIds, tags \in lists :
          IF Has(workstreams, id)
          THEN LET workstream == Get(workstreams, id)
               IN  \E new_tags \in ListsOfSet(unique_tags(workstream.tags, tags)) :
                      /\ workstreams' = Put(workstreams,
                             [workstream EXCEPT !.tags = new_tags, !.updated_at = clock])
                      /\ file' = SaveFile(workstreams')
                      /\ Returned("add_tags", id, tags, "ok")
          ELSE /\ UNCHANGED <<workstreams, file>>
               /\ Returned("add_tags", id, tags, "none")
    /\ UNCHANGED status

\* storage.py:189-190: f"[{timestamp}] {note}"
FormatNote(timestamp, note) == "[" \o ToString(timestamp) \o "] " \o note

\* append_note when the new note goes first
append_note_Front(notes, formatted_note) == <<formatted_note>> \o notes

\* storage.py:190: workstream.notes.append(formatted_note)
append_note(notes, formatted_note) == Append(notes, formatted_note)

AddNote(texts, budget) ==
    /\ Calling(budget)
    /\ \E id \in TargetIds, note \in texts :
          IF Has(workstreams, id)
          THEN LET workstream == Get(workstreams, id)
               IN  /\ workstreams' = Put(workstreams,
                          [workstream EXCEPT
                              !.notes = append_note(@, FormatNote(clock, note)),
                              !.updated_at = clock])
                   /\ file' = SaveFile(workstreams')
                   /\ Returned("add_note", id, note, "ok")
          ELSE /\ UNCHANGED <<workstreams, file>>
               /\ Returned("add_note", id, note, "none")
    /\ UNCHANGED status

-----------------------------------------------------------------------------
(* update_note and delete_note.  storage.py does not hold them; server.py, *)
(* web.py and tests/test_storage.py call them.  They are written down from *)
(* the store's contract: the note at a 0-based index is rewritten or taken *)
(* out; an unknown id or an index outside [0, len(notes)) is not found.    *)

NoteIndexes == {-1, 0, 1, 2}
NoteContentsN == {"edit"}
NoteCategoriesN == {None, "decision"}
CategoryTags == [decision |-> "[DECISION]"]

\* the position of notes[index] in a Python list, negative indices counting
\* from the end
NotePosition(notes, index) == IF index < 0 THEN Len(notes) + index + 1 ELSE index + 1

\* NoteIndexValid as Python's own indexing has it: -len(notes) <= index
NoteIndexValid_Negative(notes, index) == -Len(notes) <= index /\ index < Len(notes)

\* the index lies in [0, len(notes))
NoteIndexValid(notes, index) == 0 <= index /\ index < Len(notes)

\* "[timestamp][CATEGORY] content"
FormatNoteCategory(timestamp, category, content) ==
    "[" \o ToString(timestamp) \o "]"
        \o (IF category = None THEN " " ELSE CategoryTags[category] \o " ") \o content

\* test_storage.py:412: update_note(id, index, content, category)
UpdateNote(budget) ==
    /\ Calling(budget)
    /\ \E id \in TargetIds, index \in NoteIndexes,
          content \in NoteContentsN, category \in NoteCategoriesN :
          LET arg == [index |-> index, content |-> content, category |-> category]
          IN  IF Has(workstreams, id) /\ NoteIndexValid(Get(workstreams, id).notes, index)
              THEN LET workstream == Get(workstreams, id)
                       position == NotePosition(workstream.notes, index)
                   IN  /\ workstreams' = Put(workstreams,
                              [workstream EXCEPT
                                  !.notes[position] =
                                      FormatNoteCategory(clock, category, content),
                                  !.updated_at = clock])
                       /\ file' = SaveFile(workstreams')
                       /\ Returned("update_note", id, arg, "ok")
              ELSE /\ UNCHANGED <<workstreams, file>>
                   /\ Returned("update_note", id, arg, "none")
    /\ UNCHANGED status

\* test_storage.py:456: delete_note(id, index)
DeleteNote(budget) ==
    /\ Calling(budget)
    /\ \E id \in TargetIds, index \in NoteIndexes :
          LET arg == [index |-> index]
          IN  IF Has(workstreams, id) /\ NoteIndexValid(Get(workstreams, id).notes, index)
              THEN LET workstream == Get(workstreams, id)
                       position == NotePosition(workstream.notes, index)
                   IN  /\ workstreams' = Put(workstreams,
                              [workstream EXCEPT
                                  !.notes = SubSeq(@, 1, position - 1)
                                                \o SubSeq(@, position + 1, Len(@)),
                                  !.updated_at = clock])
                       /\ file' = SaveFile(workstreams')
                       /\ Returned("delete_note", id, arg, "ok")
              ELSE /\ UNCHANGED <<workstreams, file>>
                   /\ Returned("delete_note", id, arg, "none")
    /\ UNCHANGED status

-----------------------------------------------------------------------------
(* storage.py: the queries.  They read the dict and change nothing. *)

\* tag lists a caller may search for
SearchTagLists == {<<>>, <<"t1">>, <<"t1", "t2">>}

\* storage.py:96-98: list(self._workstreams.values())
list(ws) == ws

\* storage.py:197-202: the notes of the entity, or None
get_notes(ws, id) == IF Has(ws, id) THEN Get(ws, id).notes ELSE None

\* storage.py:156-167: all(tag in w.tags ...) or any(tag in w.tags ...)
search_by_tags(ws, tags, match_all) ==
    SelectSeq(ws, LAMBDA w :
        IF match_all
        THEN \A i \in DOMAIN tags : tags[i] \in SeqToSet(w.tags)
        ELSE \E i \in DOMAIN tags : tags[i] \in SeqToSet(w.tags))

-----------------------------------------------------------------------------
(* heuristics.py: build_tree, and storage.py: get_tree *)

\* add_child when the new child goes first
add_child_Front(children_map, ws) ==
    (ws.parent_id :> (<<ws>> \o DictGet(children_map, ws.parent_id, <<>>)))
        @@ children_map

\* heuristics.py:364-366: children_map[ws.parent_id].append(ws), the list
\* being made on the first child
add_child(children_map, ws) ==
    (ws.parent_id :> Append(DictGet(children_map, ws.parent_id, <<>>), ws))
        @@ children_map

RECURSIVE build_tree_loop(_, _, _)
\* heuristics.py:362-368: the loop over the entities
build_tree_loop(wss, roots, children_map) ==
    IF wss = <<>> THEN [roots |-> roots, children |-> children_map]
    ELSE LET ws == Head(wss)
         IN  IF Truthy(ws.parent_id)
             THEN build_tree_loop(Tail(wss), roots, add_child(children_map, ws))
             ELSE build_tree_loop(Tail(wss), Append(roots, ws), children_map)

\* heuristics.py:351-370
build_tree(wss) == build_tree_loop(wss, <<>>, <<>>)

\* storage.py:235-245
get_tree(ws) == build_tree(list(ws))

RECURSIVE print_tree(_, _)
\* cli.py:164-169: the ids of the entities that print_tree prints for the
\* entities of printed: each of them, and the children filed under its id
print_tree(children_map, printed) ==
    LET below == UNION {{children_map[id][k].id : k \in DOMAIN children_map[id]} :
                           id \in printed \cap DOMAIN children_map}
    IN  IF below \subseteq printed THEN printed
        ELSE print_tree(children_map, printed \cup below)

\* cli.py:155-177: the ids of the entities that the tree view shows
cmd_tree(ws) ==
    LET tree_data == get_tree(ws)
    IN  print_tree(tree_data.children, {tree_data.roots[k].id : k \in DOMAIN tree_data.roots})

-----------------------------------------------------------------------------
(* Python's str, for heuristics.py.  A string is a TLA+ string; the        *)
(* characters of the model are ASCII, and LongS, which stands for U+017F   *)
(* LATIN SMALL LETTER LONG S: a letter that str.lower() leaves alone and    *)
(* that re.IGNORECASE takes for a form of "s".                             *)

UpperCase == "ABCDEFGHIJKLMNOPQRSTUVWXYZ"
LowerCase == "abcdefghijklmnopqrstuvwxyz"
Digits == "0123456789"
LongS == "$"

\* s[i], 1-based
CharAt(s, i) == SubSeq(s, i, i)
\* the characters of an alphabet
Chars(alphabet) == {CharAt(alphabet, i) : i \in 1..Len(alphabet)}
UpperCaseChars == Chars(UpperCase)
LowerCaseChars == Chars(LowerCase)
WordChars == Chars(LowerCase) \cup Chars(UpperCase) \cup Chars(Digits) \cup {"_", LongS}

\* the lowercase letter of each uppercase letter
LowerOfUpper ==
    [c \in UpperCaseChars |->
        CharAt(LowerCase, CHOOSE i \in 1..Len(UpperCase) : CharAt(UpperCase, i) = c)]

LowerChar(c) == IF c \in UpperCaseChars THEN LowerOfUpper[c] ELSE c

RECURSIVE Lower(_)
\* str.lower()
Lower(s) ==
    IF Len(s) <= 1 THEN LowerChar(s)
    ELSE Lower(SubSeq(s, 1, Len(s) \div 2)) \o Lower(SubSeq(s, Len(s) \div 2 + 1, Len(s)))

RECURSIVE Replace(_, _, _)
\* str.replace(old, new) for a one-character old
Replace(s, old, new) ==
    IF Len(s) <= 1 THEN (IF s = old THEN new ELSE s)
    ELSE Replace(SubSeq(s, 1, Len(s) \div 2), old, new)
             \o Replace(SubSeq(s, Len(s) \div 2 + 1, Len(s)), old, new)

RECURSIVE LStrip(_)
LStrip(s) == IF s # "" /\ CharAt(s, 1) = " " THEN LStrip(SubSeq(s, 2, Len(s))) ELSE s
RECURSIVE RStrip(_)
RStrip(s) ==
    IF s # "" /\ CharAt(s, Len(s)) = " " THEN RStrip(SubSeq(s, 1, Len(s) - 1)) ELSE s
\* str.strip()
Strip(s) == LStrip(RStrip(s))

\* needle in hay
Contains(hay, needle) ==
    \E i \in 0..(Len(hay) - Len(needle)) : SubSeq(hay, i + 1, i + Len(needle)) = needle

\* hay.startswith(needle)
StartsWith(hay, needle) ==
    Len(needle) <= Len(hay) /\ SubSeq(hay, 1, Len(needle)) = needle

\* two characters that re.IGNORECASE takes for one another
SameIgnoringCase(c, d) ==
    \/ LowerChar(c) = LowerChar(d)
    \/ {LowerChar(c), LowerChar(d)} = {"s", LongS}

\* re.match("^" + re.escape(needle), hay, re.IGNORECASE)
MatchIgnoringCase(hay, needle) ==
    /\ Len(needle) <= Len(hay)
    /\ \A i \in 1..Len(needle) : SameIgnoringCase(CharAt(hay, i), CharAt(needle, i))

\* the place of a lowercase letter in the alphabet
LetterIndex(c) == CHOOSE i \in 1..Len(LowerCase) : CharAt(LowerCase, i) = c

\* a < b for strings of lowercase letters
RECURSIVE StrLess(_, _)
StrLess(a, b) ==
    IF b = "" THEN FALSE
    ELSE IF a = "" THEN TRUE
    ELSE IF CharAt(a, 1) = CharAt(b, 1)
    THEN StrLess(SubSeq(a, 2, Len(a)), SubSeq(b, 2, Len(b)))
    ELSE LetterIndex(CharAt(a, 1)) < LetterIndex(CharAt(b, 1))

RECURSIVE Join(_, _)
\* sep.join(strings)
Join(sep, strings) ==
    IF strings = <<>> THEN ""
    ELSE IF Len(strings) = 1 THEN strings[1]
    ELSE Join(sep, SubSeq(strings, 1, Len(strings) \div 2))
             \o sep \o Join(sep, SubSeq(strings, Len(strings) \div 2 + 1, Len(strings)))

-----------------------------------------------------------------------------
(* heuristics.py: the heuristics.  A confidence is an integer, the float   *)
(* times Scale; a reason is [text, items], the text of the f-string and    *)
(* the tags or keywords it lists; an Optional[HeuristicResult] is Nil or   *)
(* Some([confidence, reason]).                                             *)

Scale == 10000
PROGRAM_TAGS == {"program", "initiative", "project", "portfolio", "epic", "parent"}
MIN_TAG_OVERLAP == 2
MIN_CONFIDENCE == 3000

\* min(a, b)
Min(a, b) == IF a <= b THEN a ELSE b

HeuristicResult(confidence, text, items) ==
    Some([confidence |-> confidence, reason |-> [text |-> text, items |-> items]])

\* heuristics.py:38-53
_tag_overlap_heuristic(ws1, ws2) ==
    IF ws1.tags = <<>> \/ ws2.tags = <<>> THEN Nil
    ELSE LET shared_tags == SeqToSet(ws1.tags) \cap SeqToSet(ws2.tags)
             shared_non_program == shared_tags \ PROGRAM_TAGS
             count == Cardinality(shared_non_program)
         IN  IF count >= MIN_TAG_OVERLAP
             THEN HeuristicResult(Min(8000, 3000 + count * 1500),
                                  "Share " \o ToString(count) \o " tags",
                                  shared_non_program)
             ELSE Nil

\* heuristics.py:76-82: re.match of "^parent\s*[-:]\s*" or "^parent\s+", with
\* re.IGNORECASE
PrefixPattern(parent_name, child_name) ==
    /\ MatchIgnoringCase(child_name, parent_name)
    /\ LET rest == SubSeq(child_name, Len(parent_name) + 1, Len(child_name))
       IN  \/ LStrip(rest) # "" /\ CharAt(LStrip(rest), 1) \in {"-", ":"}
           \/ rest # "" /\ CharAt(rest, 1) = " "

\* _name_containment_heuristic with the prefix patterns tried before the
\* plain containment
_name_containment_heuristic_PrefixFirst(potential_parent, potential_child) ==
    LET parent_name == Strip(Lower(potential_parent.name))
        child_name == Strip(Lower(potential_child.name))
    IN  IF parent_name = child_name THEN Nil
        ELSE IF PrefixPattern(parent_name, child_name)
        THEN HeuristicResult(7500,
                 "Child name prefixed with parent name '" \o potential_parent.name \o "'", {})
        ELSE IF Contains(child_name, parent_name)
        THEN HeuristicResult(7000,
                 "Child name contains parent name '" \o potential_parent.name \o "'", {})
        ELSE Nil

\* heuristics.py:56-88
_name_containment_heuristic(potential_parent, potential_child) ==
    LET parent_name == Strip(Lower(potential_parent.name))
        child_name == Strip(Lower(potential_child.name))
    IN  IF parent_name = child_name THEN Nil
        ELSE IF Contains(child_name, parent_name)
        THEN HeuristicResult(7000,
                 "Child name contains parent name '" \o potential_parent.name \o "'", {})
        ELSE IF PrefixPattern(parent_name, child_name)
        THEN HeuristicResult(7500,
                 "Child name prefixed with parent name '" \o potential_parent.name \o "'", {})
        ELSE Nil

\* heuristics.py:91-93
_program_tag_heuristic(ws) == SeqToSet(ws.tags) \cap PROGRAM_TAGS # {}

stopwords ==
    {"about", "after", "being", "between", "could", "during", "every", "first",
     "through", "under", "using", "where", "which", "while", "would", "their",
     "there", "these", "those", "should", "including", "working"}

\* \w of the regular expression
IsWordChar(c) == c \in WordChars
\* \b at the edge of a run of letters: the neighbour is no word character
Boundary(text, k) == k < 1 \/ k > Len(text) \/ ~IsWordChar(CharAt(text, k))

RECURSIVE RunEnd(_, _)
\* [a-zA-Z]{5,} is greedy: the last letter of the run of letters that starts at k
RunEnd(text, k) ==
    IF k < Len(text) /\ CharAt(text, k + 1) \in LowerCaseChars
    THEN RunEnd(text, k + 1)
    ELSE k

\* heuristics.py:101-128: re.findall(r"\b[a-zA-Z]{5,}\b", text.lower()), as a
\* set, minus the stopwords
extract_keywords(text) ==
    LET lowered == Lower(text)
        words == {SubSeq(lowered, i, RunEnd(lowered, i)) : i \in
                    {k \in 1..Len(lowered) :
                        /\ Boundary(lowered, k - 1)
                        /\ CharAt(lowered, k) \in LowerCaseChars
                        /\ RunEnd(lowered, k) - k + 1 >= 5
                        /\ Boundary(lowered, RunEnd(lowered, k) + 1)}}
    IN  words \ stopwords

RECURSIVE Ascending(_)
\* the strings of a set, smallest first
Ascending(S) ==
    IF S = {} THEN <<>>
    ELSE LET least == CHOOSE x \in S : \A y \in S \ {x} : StrLess(x, y)
         IN  <<least>> \o Ascending(S \ {least})

Reverse(seq) == [i \in 1..Len(seq) |-> seq[Len(seq) + 1 - i]]

\* The order in which a set of str is iterated follows the hashes of its
\* members, and str hashes are salted per process (PYTHONHASHSEED, random by
\* default).  A hash seed of the model stands for a process; the two seeds
\* give two of the orders a process can have.
HashSeeds == {"seed-a", "seed-b"}

\* heuristics.py:143: list(overlap)
IterationOrder(S, hash_seed) ==
    IF hash_seed = "seed-a" THEN Ascending(S) ELSE Reverse(Ascending(S))

\* heuristics.py:143: sorted(list(overlap)[:5]), as the set of the keywords listed
ListedKeywords(overlap, hash_seed) ==
    SeqToSet(SubSeq(IterationOrder(overlap, hash_seed), 1, Min(5, Cardinality(overlap))))

\* heuristics.py:96-145.  The reason lists at most five of the shared keywords.
_summary_similarity_heuristic(ws1, ws2, hash_seed) ==
    LET kw1 == extract_keywords(ws1.summary)
        kw2 == extract_keywords(ws2.summary)
        overlap == kw1 \cap kw2
    IN  IF kw1 = {} \/ kw2 = {} THEN Nil
        ELSE IF Cardinality(overlap) >= 3
        THEN LET jaccard == (Cardinality(overlap) * Scale) \div Cardinality(kw1 \cup kw2)
             IN  HeuristicResult(Min(6000, jaccard + 2000),
                                 "Summary keyword overlap",
                                 ListedKeywords(overlap, hash_seed))
        ELSE Nil

\* _cross_reference_heuristic with the names looked for before the ids
_cross_reference_heuristic_NameFirst(ws1, ws2) ==
    LET ws1_notes_text == Lower(Join(" ", ws1.notes))
        ws2_notes_text == Lower(Join(" ", ws2.notes))
    IN  IF Len(ws2.name) > 5 /\ Contains(ws1_notes_text, Lower(ws2.name))
        THEN HeuristicResult(7000, "Mentions '" \o ws2.name \o "' in notes", {})
        ELSE IF Len(ws1.name) > 5 /\ Contains(ws2_notes_text, Lower(ws1.name))
        THEN HeuristicResult(7000, "Mentioned by '" \o ws2.name \o "' in its notes", {})
        ELSE IF Contains(ws1_notes_text, ws2.id)
        THEN HeuristicResult(9000, "References workstream ID '" \o ws2.id \o "' in notes", {})
        ELSE IF Contains(ws2_notes_text, ws1.id)
        THEN HeuristicResult(9000, "Referenced by workstream in its notes", {})
        ELSE Nil

\* heuristics.py:148-180
_cross_reference_heuristic(ws1, ws2) ==
    LET ws1_notes_text == Lower(Join(" ", ws1.notes))
        ws2_notes_text == Lower(Join(" ", ws2.notes))
    IN  IF Contains(ws1_notes_text, ws2.id)
        THEN HeuristicResult(9000, "References workstream ID '" \o ws2.id \o "' in notes", {})
        ELSE IF Contains(ws2_notes_text, ws1.id)
        THEN HeuristicResult(9000, "Referenced by workstream in its notes", {})
        ELSE IF Len(ws2.name) > 5 /\ Contains(ws1_notes_text, Lower(ws2.name))
        THEN HeuristicResult(7000, "Mentions '" \o ws2.name \o "' in notes", {})
        ELSE IF Len(ws1.name) > 5 /\ Contains(ws2_notes_text, Lower(ws1.name))
        THEN HeuristicResult(7000, "Mentioned by '" \o ws2.name \o "' in its notes", {})
        ELSE Nil

\* heuristics.py:183-210
_shared_tag_parent_heuristic(potential_parent, potential_child) ==
    IF SeqToSet(potential_parent.tags) \cap PROGRAM_TAGS = {} THEN Nil
    ELSE LET parent_name_tag == Replace(Lower(potential_parent.name), " ", "-")
             parent_name_tag_simple == Replace(Lower(potential_parent.name), " ", "")
             child_tags_lower == {Lower(t) : t \in SeqToSet(potential_child.tags)}
         IN  IF \/ parent_name_tag \in child_tags_lower
                \/ parent_name_tag_simple \in child_tags_lower
                \/ Lower(potential_parent.name) \in child_tags_lower
             THEN HeuristicResult(8500,
                      "Child tagged with parent's name '" \o potential_parent.name
                          \o "' and parent has program tag", {})
             ELSE Nil

-----------------------------------------------------------------------------
(* heuristics.py: suggest_relationships *)

\* Fires without the threshold
Fires_Always(result) == IsSome(result)

\* result and result.confidence >= MIN_CONFIDENCE
Fires(result) == IsSome(result) /\ Val(result).confidence >= MIN_CONFIDENCE

RelationshipSuggestion(source, target, relationship_type, result) ==
    [source_id         |-> source.id,
     target_id         |-> target.id,
     relationship_type |-> relationship_type,
     confidence        |-> Val(result).confidence,
     reason            |-> Val(result).reason]

\* heuristics.py:231-256 and 259-284: the two parent heuristics for one
\* direction, tried only when the candidate parent carries a program tag
parent_heuristics(potential_parent, potential_child) ==
    IF ~_program_tag_heuristic(potential_parent) THEN Nil
    ELSE LET shared == _shared_tag_parent_heuristic(potential_parent, potential_child)
             name == _name_containment_heuristic(potential_parent, potential_child)
         IN  IF Fires(shared)
             THEN Some(RelationshipSuggestion(potential_child, potential_parent,
                                              "parent", shared))
             ELSE IF Fires(name)
             THEN Some(RelationshipSuggestion(potential_child, potential_parent,
                                              "parent", name))
             ELSE Nil

\* heuristics.py:286-325: cross-reference, then tag overlap, then summary
\* similarity
related_heuristics(ws1, ws2, hash_seed) ==
    LET cross == _cross_reference_heuristic(ws1, ws2)
        overlap == _tag_overlap_heuristic(ws1, ws2)
        summary == _summary_similarity_heuristic(ws1, ws2, hash_seed)
    IN  IF Fires(cross) THEN Some(RelationshipSuggestion(ws1, ws2, "related", cross))
        ELSE IF Fires(overlap) THEN Some(RelationshipSuggestion(ws1, ws2, "related", overlap))
        ELSE IF Fires(summary) THEN Some(RelationshipSuggestion(ws1, ws2, "similar", summary))
        ELSE Nil

\* pair_suggestion without the skip of the pairs that are linked already
pair_suggestion_Linked(ws1, ws2, hash_seed) ==
    IF IsSome(parent_heuristics(ws1, ws2)) THEN parent_heuristics(ws1, ws2)
    ELSE IF IsSome(parent_heuristics(ws2, ws1)) THEN parent_heuristics(ws2, ws1)
    ELSE related_heuristics(ws1, ws2, hash_seed)

\* heuristics.py:225-325: the body of the inner loop: Nil, or Some(the
\* suggestion appended for the pair)
pair_suggestion(ws1, ws2, hash_seed) ==
    IF ws1.parent_id = ws2.id \/ ws2.parent_id = ws1.id THEN Nil
    ELSE IF IsSome(parent_heuristics(ws1, ws2)) THEN parent_heuristics(ws1, ws2)
    ELSE IF IsSome(parent_heuristics(ws2, ws1)) THEN parent_heuristics(ws2, ws1)
    ELSE related_heuristics(ws1, ws2, hash_seed)

RECURSIVE inner_loop(_, _, _, _)
\* heuristics.py:224: for ws2 in workstreams[i + 1:]
inner_loop(ws1, rest, suggestions, hash_seed) ==
    IF rest = <<>> THEN suggestions
    ELSE inner_loop(ws1, Tail(rest),
                    suggestions \o pair_suggestion(ws1, Head(rest), hash_seed), hash_seed)

RECURSIVE outer_loop(_, _, _)
\* heuristics.py:223: for i, ws1 in enumerate(workstreams)
outer_loop(wss, suggestions, hash_seed) ==
    IF wss = <<>> THEN suggestions
    ELSE outer_loop(Tail(wss), inner_loop(Head(wss), Tail(wss), suggestions, hash_seed),
                    hash_seed)

RECURSIVE SortByConfidence(_)
\* a sort that is not stable: an element goes before those of its confidence
SortByConfidence_Unstable(suggestions) ==
    IF suggestions = <<>> THEN <<>>
    ELSE LET front == SortByConfidence(SubSeq(suggestions, 1, Len(suggestions) - 1))
             s == suggestions[Len(suggestions)]
         IN  SelectSeq(front, LAMBDA x : x.confidence > s.confidence)
                 \o <<s>>
                 \o SelectSeq(front, LAMBDA x : x.confidence <= s.confidence)

\* heuristics.py:328: list.sort(key=confidence, reverse=True), which is
\* stable: an element goes behind those of at least its confidence
SortByConfidence(suggestions) ==
    IF suggestions = <<>> THEN <<>>
    ELSE LET front == SortByConfidence(SubSeq(suggestions, 1, Len(suggestions) - 1))
             s == suggestions[Len(suggestions)]
         IN  SelectSeq(front, LAMBDA x : x.confidence >= s.confidence)
                 \o <<s>>
                 \o SelectSeq(front, LAMBDA x : x.confidence < s.confidence)

\* heuristics.py:213-329
suggest_relationships(wss, hash_seed) == SortByConfidence(outer_loop(wss, <<>>, hash_seed))

-----------------------------------------------------------------------------
(* storage.py: set_parent *)

\* storage.py:222-223: parent_ws.parent_id if parent_ws else None
ParentIdOf(ws, current) == IF Has(ws, current) THEN Get(ws, current).parent_id ELSE None

RECURSIVE AncestorWalk(_, _, _, _)
\* storage.py:219-223: the while loop.  The dict does not change while it runs,
\* so a second visit of an id other than the one looked for repeats for ever.
AncestorWalk(ws, id, current, visited) ==
    IF ~Truthy(current) THEN "accept"
    ELSE IF current = id THEN "reject"
    ELSE IF current \in visited THEN "hang"
    ELSE AncestorWalk(ws, id, ParentIdOf(ws, current), visited \cup {current})

\* CycleCheck without the walk: only the parent itself is compared
CycleCheck_ParentOnly(ws, id, parent_id) ==
    IF Truthy(parent_id) /\ parent_id = id THEN "reject" ELSE "accept"

\* storage.py:217-223
CycleCheck(ws, id, parent_id) ==
    IF Truthy(parent_id) THEN AncestorWalk(ws, id, parent_id, {}) ELSE "accept"

\* storage.py:213
ParentMissing(ws, parent_id) == Truthy(parent_id) /\ ~Has(ws, parent_id)

\* storage.py:208-223: what the call does: "none", "hang" or "ok"
SetParentOutcome(ws, id, parent_id) ==
    IF ~Has(ws, id) THEN "none"
    ELSE IF ParentMissing(ws, parent_id) THEN "none"
    ELSE LET walk == CycleCheck(ws, id, parent_id)
         IN  IF walk = "reject" THEN "none"
             ELSE IF walk = "hang" THEN "hang" ELSE "ok"

SetParent(budget) ==
    /\ Calling(budget)
    /\ \E id \in TargetIds, parent_id \in ParentArgs :
          LET outcome == SetParentOutcome(workstreams, id, parent_id)
          IN  /\ Returned("set_parent", id, parent_id, outcome)
              /\ IF outcome = "ok"
                 THEN /\ workstreams' = Put(workstreams,
                             [Get(workstreams, id) EXCEPT !.parent_id = parent_id,
                                                          !.updated_at = clock])
                      /\ file' = SaveFile(workstreams')
                      /\ UNCHANGED status
                 ELSE /\ UNCHANGED <<workstreams, file>>
                      /\ status' = IF outcome = "hang" THEN "hung" ELSE status

-----------------------------------------------------------------------------
(* The environment: time passes; a handler of web.py reloads the file *)

Tick ==
    /\ status = "idle"
    /\ clock < MaxClock
    /\ clock' = clock + 1
    /\ UNCHANGED <<workstreams, file, nops, status, last, other>>

\* initialize / _load on the instance
Load ==
    /\ status = "idle"
    /\ workstreams' = LoadFile(file, clock)
    /\ UNCHANGED <<file, clock, nops, status, last, other>>

\* The instance that runs is X or Y, the one that waits is the other of the
\* two.  Each is a process with a WorkstreamStorage of its own on the one
\* data file (the MCP server, the web server, a run of the CLI); the
\* processes take turns, and nothing is read or written at the change.
Switch ==
    /\ status = "idle"
    /\ workstreams' = other.workstreams
    /\ other' = [instance    |-> IF other.instance = "Y" THEN "X" ELSE "Y",
                 workstreams |-> workstreams]
    /\ UNCHANGED <<file, clock, nops, status, last>>

-----------------------------------------------------------------------------

Init ==
    /\ workstreams = <<>>
    /\ file = [exists |-> FALSE, data |-> <<>>]
    /\ clock = 0
    /\ nops = 0
    /\ status = "idle"
    /\ last = [op |-> "init", id |-> None, arg |-> None, result |-> "ok"]
    /\ other = [instance |-> "Y", workstreams |-> <<>>]

\* Spec: the store under the calls that write ids and parent links, which
\* differ in the hierarchy they ask for
Next ==
    \/ Update(UpdateRequests, MaxOps)
    \/ SetParent(MaxOps)
    \/ Delete(MaxOps)
    \/ Create(CreateRequests, MaxOps, FALSE)
    \/ Tick
    \/ Load

Spec == Init /\ [][Next]_vars

\* SpecFresh: the same, with every generated id new to the store
NextFresh ==
    \/ Update(UpdateRequests, MaxOps)
    \/ SetParent(MaxOps)
    \/ Delete(MaxOps)
    \/ Create(CreateRequests, MaxOps, TRUE)
    \/ Tick
    \/ Load

SpecFresh == Init /\ [][NextFresh]_vars

\* SpecFields: the store under all its calls, which differ in the fields
\* they set
NextFields ==
    \/ Update(UpdateRequestsF, MaxOpsF)
    \/ SetParent(MaxOpsF)
    \/ Delete(MaxOpsF)
    \/ AddTags(AddTagsListsF, MaxOpsF)
    \/ AddNote(NoteTextsF, MaxOpsF)
    \/ Create(CreateRequestsF, MaxOpsF, FALSE)
    \/ Tick
    \/ Load

SpecFields == Init /\ [][NextFields]_vars

\* SpecNotes: the store under the calls that write notes
NextNotes ==
    \/ AddNote(NoteTextsF, MaxOpsN)
    \/ UpdateNote(MaxOpsN)
    \/ DeleteNote(MaxOpsN)
    \/ Create(CreateRequestsN, MaxOpsN, FALSE)
    \/ Tick
    \/ Load

SpecNotes == Init /\ [][NextNotes]_vars

-----------------------------------------------------------------------------
(* SpecSuggest: suggest_relationships on the stores of two entities that   *)
(* differ in name, tags, notes, summary and link                           *)

SuggestNames == {"Jupiter", "Jupiter Net", "Net", "s", LongS \o " x"}
SuggestTags ==
    {<<>>, <<"program", "jupiter", "net">>, <<"jupiter", "net">>,
     <<"program", "jupiter-net">>}
SuggestNotes ==
    {<<>>, <<"[0] see ws-1-a">>, <<"[0] see ws-2-a">>, <<"[0] ask", "[1] Jupiter">>}
SuggestSummaries == {"s1", "Alpha bravo delta"}

\* the entity created at tick ms, with no metadata
SuggestEntity(ms, name, tags, notes, summary, parent_id) ==
    [id         |-> _generate_id(ms, "a"),
     name       |-> name,
     summary    |-> summary,
     tags       |-> tags,
     metadata   |-> MetadataFromDict(<<>>),
     notes      |-> notes,
     parent_id  |-> parent_id,
     created_at |-> ms,
     updated_at |-> ms]

SuggestEntities(ms, parents) ==
    {SuggestEntity(ms, name, tags, notes, summary, parent_id) :
        name \in SuggestNames, tags \in SuggestTags, notes \in SuggestNotes,
        summary \in SuggestSummaries, parent_id \in parents}

\* the second entity may be the child of the first
SuggestInputs ==
    {<<ws1, ws2>> : ws1 \in SuggestEntities(1, {None}),
                    ws2 \in SuggestEntities(2, {None, _generate_id(1, "a")})}

InitSuggest ==
    /\ workstreams \in SuggestInputs
    /\ file = SaveFile(workstreams)
    /\ clock = 2
    /\ nops = 0
    /\ status = "idle"
    /\ last = [op |-> "init", id |-> None, arg |-> None, result |-> "ok"]
    /\ other = [instance |-> "Y", workstreams |-> <<>>]

\* SuggestRelationships that applies the parent links it suggests: the source
\* of every parent suggestion gets the target as its parent, and the file is
\* written
SuggestRelationships_Applying(budget, hash_seeds) ==
    /\ Calling(budget)
    /\ \E hash_seed \in hash_seeds :
          LET result == suggest_relationships(list(workstreams), hash_seed)
              Suggested(w) == {k \in DOMAIN result :
                                 /\ result[k].relationship_type = "parent"
                                 /\ result[k].source_id = w.id}
          IN  /\ workstreams' =
                     [i \in DOMAIN workstreams |->
                         IF Suggested(workstreams[i]) = {} THEN workstreams[i]
                         ELSE [workstreams[i] EXCEPT !.parent_id =
                                  result[CHOOSE k \in Suggested(workstreams[i]) : TRUE].target_id]]
              /\ Returned("suggest_relationships", None, hash_seed, result)
    /\ file' = SaveFile(workstreams')
    /\ UNCHANGED status

\* storage.py:247-251, in a process whose hash seed is one of hash_seeds.  The
\* seed is recorded as the argument of the call.
SuggestRelationships(budget, hash_seeds) ==
    /\ Calling(budget)
    /\ \E hash_seed \in hash_seeds :
          Returned("suggest_relationships", None, hash_seed,
                   suggest_relationships(list(workstreams), hash_seed))
    /\ UNCHANGED <<workstreams, file, status>>

\* storage.py:235-245
GetTree(budget) ==
    /\ Calling(budget)
    /\ Returned("get_tree", None, None, get_tree(workstreams))
    /\ UNCHANGED <<workstreams, file, status>>

\* no two summaries of SuggestSummaries share more than five keywords, so
\* that one hash seed gives every result
NextSuggest == SuggestRelationships(MaxCalls, {"seed-a"})

SpecSuggest == InitSuggest /\ [][NextSuggest]_vars

-----------------------------------------------------------------------------
(* SpecSuggestMany: suggest_relationships and get_tree on the stores of    *)
(* three unlinked entities with a program tag each, one name in the other  *)
(* or the same name, and summaries of many keywords                        *)

\* word + "a", word + "b", ...: count keywords, joined by blanks
Keywords(word, count) == Join(" ", [i \in 1..count |-> word \o CharAt(LowerCase, i)])

ManyNames == {"Net", "Jupiter Net"}
ManyTags == {<<"program">>}
\* Any two of them share alpha, bravo and delta.  The second and the third
\* share nothing else and have many keywords each; a summary shares six
\* keywords or more with itself.
ManySummaries ==
    {"Alpha bravo delta echoes foxtrot golfer",
     "Alpha bravo delta " \o Keywords("north", ManyKeywords),
     "Alpha bravo delta " \o Keywords("south", ManyKeywords)}

ManyEntities(ms) ==
    {SuggestEntity(ms, name, tags, <<>>, summary, None) :
        name \in ManyNames, tags \in ManyTags, summary \in ManySummaries}

ManyInputs ==
    {<<ws1, ws2, ws3>> :
        ws1 \in ManyEntities(1), ws2 \in ManyEntities(2), ws3 \in ManyEntities(3)}

InitSuggestMany ==
    /\ workstreams \in ManyInputs
    /\ file = SaveFile(workstreams)
    /\ clock = 3
    /\ nops = 0
    /\ status = "idle"
    /\ last = [op |-> "init", id |-> None, arg |-> None, result |-> "ok"]
    /\ other = [instance |-> "Y", workstreams |-> <<>>]

NextSuggestMany ==
    \/ SuggestRelationships(MaxCallsM, HashSeeds)
    \/ GetTree(MaxCallsM)

SpecSuggestMany == InitSuggestMany /\ [][NextSuggestMany]_vars

-----------------------------------------------------------------------------
(* SpecTwo: two instances on one data file.  Both have loaded it (there    *)
(* was none); they create, add notes, delete and reload in turns.          *)

NextTwo ==
    \/ AddNote(NoteTextsF, MaxOpsT)
    \/ Delete(MaxOpsT)
    \/ Create(CreateRequestsN, MaxOpsT, FALSE)
    \/ Tick
    \/ Load
    \/ Switch

SpecTwo == Init /\ [][NextTwo]_vars

-----------------------------------------------------------------------------
(* Vocabulary of the properties *)

\* the step is a call of op (Tick and Load leave nops alone)
Called(op) == nops' = nops + 1 /\ last'.op = op

\* the parent_id of an entity of the store
ParentOf(ws, id) == Get(ws, id).parent_id

RECURSIVE Closure(_, _)
\* S and everything reached from it by following parent_id through the store
Closure(ws, S) ==
    LET T == S \cup {ParentOf(ws, x) : x \in {y \in S \cap Keys(ws) : Truthy(ParentOf(ws, y))}}
    IN  IF T = S THEN S ELSE Closure(ws, T)

\* b's parent, its parent's parent, ... (ids, whether or not still in the store)
Ancestors(ws, b) ==
    IF Has(ws, b) /\ Truthy(ParentOf(ws, b)) THEN Closure(ws, {ParentOf(ws, b)}) ELSE {}

RECURSIVE WalkEnds(_, _, _)
\* following parent_id from current ends within hops hops
WalkEnds(ws, current, hops) ==
    \/ ~Has(ws, current)
    \/ ~Truthy(ParentOf(ws, current))
    \/ hops > 0 /\ WalkEnds(ws, ParentOf(ws, current), hops - 1)

-----------------------------------------------------------------------------
(* C1: in every reachable store state the parent relation is acyclic: from *)
(* any entity, following parent_id ends, at an entity without parent or at *)
(* a missing id, after at most as many hops as there are entities.         *)
C1_Acyclic ==
    \A id \in Keys(workstreams) : WalkEnds(workstreams, id, Len(workstreams))

(* C2: an update whose non-empty parent_id is the entity's own id, or has  *)
(* the entity in its ancestor chain, is rejected: the entity's parent_id   *)
(* stays what it was.                                                      *)
C2_UpdateCycleRejected ==
    [][(/\ Called("update")
        /\ Has(workstreams, last'.id)
        /\ Truthy(last'.arg.parent_id)
        /\ \/ last'.arg.parent_id = last'.id
           \/ last'.id \in Ancestors(workstreams, last'.arg.parent_id))
       => ParentOf(workstreams', last'.id) = ParentOf(workstreams, last'.id)]_vars

(* C3: when A is B's parent or a further ancestor of B, set_parent(A, B)   *)
(* returns not found and leaves every field of every entity, and the file, *)
(* unchanged; so does set_parent(A, A).                                    *)
C3_CycleRejection ==
    [][(/\ Called("set_parent")
        /\ \/ last'.arg = last'.id
           \/ last'.id \in Ancestors(workstreams, last'.arg))
       => (/\ last'.result = "none"
           /\ workstreams' = workstreams
           /\ file' = file)]_vars

\* set_parent(A, B) was rejected for an A that is in the store and is an
\* ancestor of B two levels up
C3_Witness ==
    /\ last.op = "set_parent" /\ last.result = "none"
    /\ Has(workstreams, last.id) /\ Has(workstreams, last.arg)
    /\ last.id \in Ancestors(workstreams, last.arg)
    /\ ParentOf(workstreams, last.arg) # last.id

(* C4: set_parent terminates, accepting or rejecting, in every store state *)
(* the store's own operations can produce.                                 *)
C4_SetParentTerminates ==
    last.op = "set_parent" => (last.result \in {"ok", "none"} /\ status = "idle")

(* C5: set_parent returns not found and changes nothing when id is not in  *)
(* the store or parent_id is non-null and names no entity of the store.    *)
C5_SetParentNotFound ==
    [][(/\ Called("set_parent")
        /\ \/ ~Has(workstreams, last'.id)
           \/ last'.arg # None /\ ~Has(workstreams, last'.arg))
       => (/\ last'.result = "none"
           /\ workstreams' = workstreams
           /\ file' = file)]_vars

(* C6: after every successful mutating call the file holds the in-memory   *)
(* collection: a fresh instance loaded from it lists the same entities, in *)
(* the same order, with the same field values; a failing call writes       *)
(* nothing.                                                                *)
C6_SnapshotEqualsMemory ==
    [][nops' = nops + 1
       => IF last'.result \in {"ok", "true"}
          THEN LoadFile(file', clock') = workstreams'
          ELSE file' = file]_vars

(* C7: delete(id) returns true and removes exactly the entity with that id *)
(* when it is in the store, and returns false changing nothing otherwise;  *)
(* every other entity keeps all its fields, a child its parent_id too.     *)
C7_DeleteFrame ==
    [][Called("delete")
       => IF Has(workstreams, last'.id)
          THEN /\ last'.result = "true"
               /\ Keys(workstreams') = Keys(workstreams) \ {last'.id}
               /\ Len(workstreams') = Len(workstreams) - 1
               /\ \A k \in Keys(workstreams') : Get(workstreams', k) = Get(workstreams, k)
          ELSE /\ last'.result = "false"
               /\ workstreams' = workstreams
               /\ file' = file]_vars

\* an entity was deleted and a child still names it as its parent
C7_Witness ==
    /\ last.op = "delete" /\ last.result = "true"
    /\ ~Has(workstreams, last.id)
    /\ \E k \in Keys(workstreams) : ParentOf(workstreams, k) = last.id

(* C8: create always succeeds and adds exactly one entity, whose generated *)
(* id differs from every id already in the store: the count grows by one   *)
(* and every earlier entity is still there with all its fields.            *)
C8_CreateAddsOne ==
    [][Called("create")
       => /\ last'.result = "ok"
          /\ ~Has(workstreams, last'.id)
          /\ Len(workstreams') = Len(workstreams) + 1
          /\ \A k \in Keys(workstreams) :
                Has(workstreams', k) /\ Get(workstreams', k) = Get(workstreams, k)]_vars

(* C9: update changes only those of name, summary, tags, metadata and      *)
(* parent_id that the request holds, tags being replaced wholesale; the    *)
(* entity's id, created_at, notes and every absent field stay as they      *)
(* were and no other entity changes; for an unknown id it returns not      *)
(* found and changes nothing.                                              *)
C9_UpdateFrame ==
    [][Called("update")
       => IF Has(workstreams, last'.id)
          THEN LET request == last'.arg
                   old == Get(workstreams, last'.id)
                   new == Get(workstreams', last'.id)
               IN  /\ last'.result = "ok"
                   /\ [i \in DOMAIN workstreams' |-> workstreams'[i].id]
                        = [i \in DOMAIN workstreams |-> workstreams[i].id]
                   /\ \A k \in Keys(workstreams) \ {last'.id} :
                         Get(workstreams', k) = Get(workstreams, k)
                   /\ new.id = old.id
                   /\ new.created_at = old.created_at
                   /\ new.notes = old.notes
                   /\ new.name = IF request.name = None THEN old.name ELSE request.name
                   /\ new.summary = IF request.summary = None THEN old.summary
                                    ELSE request.summary
                   /\ new.tags = IF request.tags = Nil THEN old.tags ELSE Val(request.tags)
                   /\ request.metadata = Nil => new.metadata = old.metadata
                   /\ request.parent_id = None => new.parent_id = old.parent_id
          ELSE /\ last'.result = "none"
               /\ workstreams' = workstreams
               /\ file' = file]_vars

\* an update that held a name and tags but no summary returned an entity
\* that has a note: the name and the tags are the request's, the summary and
\* the note are the old ones
C9_Witness ==
    /\ last.op = "update" /\ last.result = "ok"
    /\ last.arg.name = "n2" /\ last.arg.summary = None
    /\ last.arg.tags = Some(<<"t2">>)
    /\ Has(workstreams, last.id)
    /\ LET w == Get(workstreams, last.id)
       IN  /\ w.name = "n2" /\ w.summary = "s1" /\ w.tags = <<"t2">>
           /\ Len(w.notes) = 1

(* C10: the parent_id of an update request is three-valued: omitted, the   *)
(* entity's parent_id is unchanged; the empty string, the entity ends with *)
(* no parent; a non-empty id, the entity's parent_id becomes that id.      *)
C10_UpdateParentThreeWay ==
    [][(Called("update") /\ Has(workstreams, last'.id))
       => LET requested == last'.arg.parent_id
              after == ParentOf(workstreams', last'.id)
          IN  /\ requested = None => after = ParentOf(workstreams, last'.id)
              /\ requested = "" => after = None
              /\ Truthy(requested) => after = requested]_vars

\* an update with the empty string returned the entity, which has no parent
C10_Witness ==
    /\ last.op = "update" /\ last.result = "ok"
    /\ last.arg.parent_id = ""
    /\ Has(workstreams, last.id)
    /\ ParentOf(workstreams, last.id) = None

-----------------------------------------------------------------------------
\* the ids of a result list, as a set
IdSet(result) == {result[i].id : i \in DOMAIN result}

(* C11: for every store state and every tag list, the empty list included, *)
(* every entity that search_by_tags returns with match_all = true is also  *)
(* returned with match_all = false.                                        *)
C11_MatchAllSubset ==
    \A tags \in SearchTagLists :
        IdSet(search_by_tags(workstreams, tags, TRUE))
            \subseteq IdSet(search_by_tags(workstreams, tags, FALSE))

(* C12: add_tags(id, T) on an entity of the store leaves it with the union *)
(* of its previous tags and T as its tag set, and a second add_tags(id, T) *)
(* right after the first leaves that tag set as it is.                     *)
C12_AddTagsIdempotent ==
    [][(Called("add_tags") /\ Has(workstreams, last'.id))
       => LET before == SeqToSet(Get(workstreams, last'.id).tags)
              after == SeqToSet(Get(workstreams', last'.id).tags)
              repeated == /\ last.op = "add_tags" /\ last.result = "ok"
                          /\ last.id = last'.id /\ last.arg = last'.arg
          IN  /\ last'.result = "ok"
              /\ after = before \cup SeqToSet(last'.arg)
              /\ repeated => after = before]_vars

\* add_tags returned an entity that carries a tag from before the call, which
\* the call did not name, next to the tags of the call
C12_Witness ==
    /\ last.op = "add_tags" /\ last.result = "ok"
    /\ Has(workstreams, last.id)
    /\ LET w == Get(workstreams, last.id)
       IN  /\ SeqToSet(last.arg) \subseteq SeqToSet(w.tags)
           /\ SeqToSet(w.tags) \ SeqToSet(last.arg) # {}
           /\ Len(w.tags) = Cardinality(SeqToSet(w.tags))

(* C13: after add_tags(id, T) where T holds N tags not yet on the entity   *)
(* and M tags already on it, the entity's tag list has as many entries as  *)
(* before the call plus N.                                                 *)
C13_AddTagsCount ==
    [][(Called("add_tags") /\ Has(workstreams, last'.id))
       => LET old_tags == Get(workstreams, last'.id).tags
              N == Cardinality(SeqToSet(last'.arg) \ SeqToSet(old_tags))
          IN  Len(Get(workstreams', last'.id).tags) = Len(old_tags) + N]_vars

(* C14: in every reachable store state no entity's tag list holds the same *)
(* string twice.                                                           *)
C14_TagsSetLike ==
    \A i \in DOMAIN workstreams :
        LET tags == workstreams[i].tags
        IN  \A j, k \in DOMAIN tags : j # k => tags[j] # tags[k]

\* the ids of a result list, in its order
Ids(result) == [i \in DOMAIN result |-> result[i].id]

(* C15: list() returns every entity of the store exactly once, in the      *)
(* order of creation: create puts the new entity last, delete takes one    *)
(* entity out and keeps the order of the others, and update, add_tags,     *)
(* add_note and set_parent move no entity.                                 *)
C15_ListOrder ==
    [][nops' = nops + 1
       => LET before == Ids(list(workstreams))
              after == Ids(list(workstreams'))
          IN  /\ \A j, k \in DOMAIN after : j # k => after[j] # after[k]
              /\ after = CASE last'.op = "create" -> Append(before, last'.id)
                            [] last'.op = "delete" ->
                                   SelectSeq(before, LAMBDA id : id # last'.id)
                            [] OTHER -> before]_vars

(* C16: add_note on an entity of the store adds exactly one note, at the   *)
(* end of its note list, and every earlier note keeps its content and its  *)
(* index, so get_notes returns the notes in the order they were added; on  *)
(* an unknown id add_note returns not found and changes nothing.           *)
C16_AddNoteAppends ==
    [][Called("add_note")
       => IF Has(workstreams, last'.id)
          THEN LET old == get_notes(workstreams, last'.id)
                   new == get_notes(workstreams', last'.id)
               IN  /\ last'.result = "ok"
                   /\ Len(new) = Len(old) + 1
                   /\ \A i \in DOMAIN old : new[i] = old[i]
                   /\ new[Len(new)] = FormatNote(clock, last'.arg)
          ELSE /\ last'.result = "none"
               /\ workstreams' = workstreams
               /\ file' = file]_vars

\* add_note returned an entity with two notes that differ: the older one is
\* first, the one of this call is second
C16_Witness ==
    /\ last.op = "add_note" /\ last.result = "ok"
    /\ Has(workstreams, last.id)
    /\ LET notes == get_notes(workstreams, last.id)
       IN  /\ Len(notes) = 2
           /\ notes[1] # notes[2]
           /\ notes[2] = FormatNote(clock, last.arg)

(* C17: update_note and delete_note return not found and leave every note  *)
(* list as it was when the id is not in the store or the index lies        *)
(* outside [0, len(notes)), a negative index included.                     *)
C17_NoteIndexErrors ==
    [][(/\ Called("update_note") \/ Called("delete_note")
        /\ \/ ~Has(workstreams, last'.id)
           \/ last'.arg.index \notin 0 .. (Len(get_notes(workstreams, last'.id)) - 1))
       => (/\ last'.result = "none"
           /\ Keys(workstreams') = Keys(workstreams)
           /\ \A k \in Keys(workstreams) :
                 get_notes(workstreams', k) = get_notes(workstreams, k))]_vars

\* update_note with index -1 returned not found for an entity of the store
\* that has two notes
C17_Witness ==
    /\ last.op = "update_note" /\ last.result = "none"
    /\ last.arg.index = -1
    /\ Has(workstreams, last.id)
    /\ Len(get_notes(workstreams, last.id)) = 2

(* C18: get_tree partitions the entities of the store.  roots holds the    *)
(* entities without parent_id (null or empty), children maps every         *)
(* parent_id that an entity names to the entities that name it, so every   *)
(* entity is in exactly one list, once; and every list is in the order of  *)
(* the store.                                                              *)
C18_TreePartition ==
    LET tree == get_tree(workstreams)
        named == {workstreams[i].parent_id : i \in DOMAIN workstreams} \ {None, ""}
    IN  /\ tree.roots = SelectSeq(list(workstreams), LAMBDA w : w.parent_id \in {None, ""})
        /\ DOMAIN tree.children = named
        /\ \A p \in named :
              tree.children[p] = SelectSeq(list(workstreams), LAMBDA w : w.parent_id = p)

\* the tree of a store with a root and two children of one parent
C18_Witness ==
    LET tree == get_tree(workstreams)
    IN  /\ tree.roots # <<>>
        /\ \E p \in DOMAIN tree.children :
              /\ Len(tree.children[p]) = 2
              /\ tree.children[p][1] # tree.children[p][2]

-----------------------------------------------------------------------------
\* the pairs of positions of an entity list that suggest does not skip
UnlinkedPairs(wss) ==
    {p \in (DOMAIN wss) \X (DOMAIN wss) :
        /\ p[1] < p[2]
        /\ wss[p[1]].parent_id # wss[p[2]].id
        /\ wss[p[2]].parent_id # wss[p[1]].id}

\* the suggestions of a result that are about the entities a and b
SuggestionsAbout(result, a, b) ==
    SelectSeq(result, LAMBDA x : {x.source_id, x.target_id} = {a.id, b.id})

\* the suggestion of the first heuristic that fires for a before b, in the
\* order: shared-tag-parent a as parent, b as parent; name containment a as
\* parent, b as parent; cross-reference; tag overlap; summary similarity
FirstInPriorityOrder(a, b) ==
    LET Parent(result, p, c) == Some(RelationshipSuggestion(c, p, "parent", result))
        Related(result, type) == Some(RelationshipSuggestion(a, b, type, result))
    IN  IF Fires(_shared_tag_parent_heuristic(a, b))
        THEN Parent(_shared_tag_parent_heuristic(a, b), a, b)
        ELSE IF Fires(_shared_tag_parent_heuristic(b, a))
        THEN Parent(_shared_tag_parent_heuristic(b, a), b, a)
        ELSE IF Fires(_name_containment_heuristic(a, b))
        THEN Parent(_name_containment_heuristic(a, b), a, b)
        ELSE IF Fires(_name_containment_heuristic(b, a))
        THEN Parent(_name_containment_heuristic(b, a), b, a)
        ELSE IF Fires(_cross_reference_heuristic(a, b))
        THEN Related(_cross_reference_heuristic(a, b), "related")
        ELSE IF Fires(_tag_overlap_heuristic(a, b))
        THEN Related(_tag_overlap_heuristic(a, b), "related")
        ELSE IF Fires(_summary_similarity_heuristic(a, b, last.arg))
        THEN Related(_summary_similarity_heuristic(a, b, last.arg), "similar")
        ELSE Nil

(* C19: for every pair that is not linked, what suggest emits for the pair *)
(* is the suggestion of the first heuristic that fires in the order        *)
(* shared-tag-parent (both directions), name containment (both             *)
(* directions), cross-reference, tag overlap, summary similarity; nothing  *)
(* is emitted when none fires.                                             *)
C19_PriorityOrder ==
    last.op = "suggest_relationships"
    => \A p \in UnlinkedPairs(workstreams) :
          LET a == workstreams[p[1]]
              b == workstreams[p[2]]
          IN  SuggestionsAbout(last.result, a, b) = FirstInPriorityOrder(a, b)

(* C20: for a pair that is not linked, on which shared-tag-parent fires in *)
(* neither direction and where the name of one entity, lowercased, holds   *)
(* the different lowercased name of the other, suggest emits a parent      *)
(* suggestion with the holder of the longer name as source, the other as   *)
(* target and confidence 0.7, whatever the tags of the two are.            *)
C20_NameContainmentAlone ==
    last.op = "suggest_relationships"
    => \A p \in UnlinkedPairs(workstreams) :
          \A q \in {<<p[1], p[2]>>, <<p[2], p[1]>>} :
             LET parent == workstreams[q[1]]
                 child == workstreams[q[2]]
             IN  (/\ ~Fires(_shared_tag_parent_heuristic(parent, child))
                  /\ ~Fires(_shared_tag_parent_heuristic(child, parent))
                  /\ Lower(parent.name) # Lower(child.name)
                  /\ Contains(Lower(child.name), Lower(parent.name)))
                 => \E k \in DOMAIN last.result :
                       /\ last.result[k].source_id = child.id
                       /\ last.result[k].target_id = parent.id
                       /\ last.result[k].relationship_type = "parent"
                       /\ last.result[k].confidence = 7000

\* the pairs of positions of a list, the earlier position first
Pairs(wss) == {p \in (DOMAIN wss) \X (DOMAIN wss) : p[1] < p[2]}

(* C21: every suggestion that suggest_relationships returns has a          *)
(* confidence of at least 0.3 and at most 1.0; where the summary           *)
(* similarity of a pair comes out below 0.3, no suggestion of similarity   *)
(* is returned for the pair.                                               *)
C21_ConfidenceBounds ==
    last.op = "suggest_relationships"
    => /\ \A k \in DOMAIN last.result :
             /\ last.result[k].confidence >= MIN_CONFIDENCE
             /\ last.result[k].confidence <= Scale
       /\ \A p \in Pairs(workstreams) :
             LET a == workstreams[p[1]]
                 b == workstreams[p[2]]
                 summary == _summary_similarity_heuristic(a, b, last.arg)
                 about == SuggestionsAbout(last.result, a, b)
             IN  (IsSome(summary) /\ Val(summary).confidence < MIN_CONFIDENCE)
                 => \A k \in DOMAIN about : about[k].relationship_type # "similar"

\* a pair whose summary similarity is below 0.3 got no suggestion, while
\* another pair of the list got one
C21_Witness ==
    /\ last.op = "suggest_relationships"
    /\ last.result # <<>>
    /\ \E p \in Pairs(workstreams) :
          LET a == workstreams[p[1]]
              b == workstreams[p[2]]
              summary == _summary_similarity_heuristic(a, b, last.arg)
          IN  /\ IsSome(summary)
              /\ Val(summary).confidence < MIN_CONFIDENCE
              /\ SuggestionsAbout(last.result, a, b) = <<>>

\* one of the two is the parent of the other
Linked(a, b) == a.parent_id = b.id \/ b.parent_id = a.id

(* C22: suggest_relationships returns no suggestion about two entities of  *)
(* which one is the parent of the other, and at most one suggestion about  *)
(* any two entities.                                                       *)
C22_UnlinkedOncePerPair ==
    last.op = "suggest_relationships"
    => \A p \in Pairs(workstreams) :
          LET a == workstreams[p[1]]
              b == workstreams[p[2]]
          IN  /\ Len(SuggestionsAbout(last.result, a, b)) <= 1
              /\ Linked(a, b) => SuggestionsAbout(last.result, a, b) = <<>>

\* a linked pair on which a heuristic fires, and nothing returned
C22_Witness ==
    /\ last.op = "suggest_relationships"
    /\ last.result = <<>>
    /\ \E p \in Pairs(workstreams) :
          /\ Linked(workstreams[p[1]], workstreams[p[2]])
          /\ IsSome(FirstInPriorityOrder(workstreams[p[1]], workstreams[p[2]]))

\* the names as _name_containment_heuristic compares them
ComparedName(w) == Strip(Lower(w.name))

(* C23, as stated: the name-containment heuristic never yields 0.75, and   *)
(* every suggestion of type parent that suggest_relationships returns has  *)
(* confidence 0.85 or 0.7.                                                 *)
C23_NeverPrefixConfidence ==
    last.op = "suggest_relationships"
    => /\ \A i, j \in DOMAIN workstreams :
             LET name == _name_containment_heuristic(workstreams[i], workstreams[j])
             IN  IsSome(name) => Val(name).confidence # 7500
       /\ \A k \in DOMAIN last.result :
             last.result[k].relationship_type = "parent"
             => last.result[k].confidence \in {8500, 7000}

(* C23, amended: the name-containment heuristic yields 0.7 whenever the    *)
(* lowercased parent name occurs in the different lowercased child name,   *)
(* and 0.75 only when it does not occur there and still matches its start  *)
(* under re.IGNORECASE, which takes a letter such as U+017F; every         *)
(* suggestion of type parent has confidence 0.85, 0.7 or 0.75.             *)
C23_PrefixConfidenceByCaseFolding ==
    last.op = "suggest_relationships"
    => /\ \A i, j \in DOMAIN workstreams :
             LET parent == workstreams[i]
                 child == workstreams[j]
                 name == _name_containment_heuristic(parent, child)
                 occurs == Contains(ComparedName(child), ComparedName(parent))
             IN  /\ (occurs /\ ComparedName(child) # ComparedName(parent))
                    => (IsSome(name) /\ Val(name).confidence = 7000)
                 /\ (IsSome(name) /\ Val(name).confidence # 7000)
                    => /\ Val(name).confidence = 7500
                       /\ ~occurs
                       /\ Contains(ComparedName(child) \o ComparedName(parent), LongS)
       /\ \A k \in DOMAIN last.result :
             last.result[k].relationship_type = "parent"
             => last.result[k].confidence \in {8500, 7000, 7500}

\* a parent suggestion of confidence 0.75 is returned
C23_Witness ==
    /\ last.op = "suggest_relationships"
    /\ \E k \in DOMAIN last.result :
          /\ last.result[k].relationship_type = "parent"
          /\ last.result[k].confidence = 7500

\* the pair of positions of the entities a suggestion is about
PairOf(wss, x) ==
    LET i == IndexOf(wss, x.source_id)
        j == IndexOf(wss, x.target_id)
    IN  IF i < j THEN <<i, j>> ELSE <<j, i>>

\* the loops of suggest_relationships come to the pair p before the pair q
EvaluatedBefore(p, q) == p[1] < q[1] \/ (p[1] = q[1] /\ p[2] < q[2])

(* C24: the list that suggest_relationships returns is ordered by          *)
(* confidence, highest first, and suggestions of equal confidence are in   *)
(* the order in which their pairs were evaluated: first entity in list     *)
(* order, second entity among the later ones in list order.                *)
C24_SortedStable ==
    last.op = "suggest_relationships"
    => \A k, l \in DOMAIN last.result :
          k < l
          => /\ last.result[k].confidence >= last.result[l].confidence
             /\ last.result[k].confidence = last.result[l].confidence
                => EvaluatedBefore(PairOf(workstreams, last.result[k]),
                                   PairOf(workstreams, last.result[l]))

\* three suggestions: two of one confidence, and one that was moved ahead
\* of a suggestion for an earlier pair
C24_Witness ==
    /\ last.op = "suggest_relationships"
    /\ Len(last.result) = 3
    /\ \E k, l \in DOMAIN last.result :
          k < l /\ last.result[k].confidence = last.result[l].confidence
    /\ \E k, l \in DOMAIN last.result :
          /\ k < l
          /\ EvaluatedBefore(PairOf(workstreams, last.result[l]),
                             PairOf(workstreams, last.result[k]))

(* C25: two runs of suggest_relationships on the same list of entities,    *)
(* with nothing changed in between, return the same list: the same         *)
(* suggestions in the same order, equal in source_id, target_id,           *)
(* relationship_type, confidence and reason.                               *)
C25_Deterministic ==
    [][(last.op = "suggest_relationships" /\ Called("suggest_relationships"))
          => last'.result = last.result]_vars

(* C26: suggest_relationships and get_tree only read: after either call    *)
(* the entities of the store, their fields and their order, and the data   *)
(* file are what they were before it; no suggested parent link is set.     *)
C26_ReadOnly ==
    [][(Called("suggest_relationships") \/ Called("get_tree"))
          => (workstreams' = workstreams /\ file' = file)]_vars

\* a parent link was suggested, and its source still has no parent, in the
\* store and in the file
C26_Witness ==
    /\ last.op = "suggest_relationships"
    /\ file = SaveFile(workstreams)
    /\ \E k \in DOMAIN last.result :
          /\ last.result[k].relationship_type = "parent"
          /\ Get(workstreams, last.result[k].source_id).parent_id = None

(* C27: for a pair that is not linked, on which shared-tag-parent fires    *)
(* with P as the parent and C as the child (and not the other way round),  *)
(* suggest_relationships returns exactly one suggestion about the pair:    *)
(* source C, target P, type parent, confidence 0.85, whichever of the two  *)
(* comes first in the list.                                                *)
C27_SharedTagParentDirection ==
    last.op = "suggest_relationships"
    => \A p \in UnlinkedPairs(workstreams) :
          \A q \in {<<p[1], p[2]>>, <<p[2], p[1]>>} :
             LET parent == workstreams[q[1]]
                 child == workstreams[q[2]]
                 about == SuggestionsAbout(last.result, parent, child)
             IN  (/\ Fires(_shared_tag_parent_heuristic(parent, child))
                  /\ ~Fires(_shared_tag_parent_heuristic(child, parent)))
                 => /\ Len(about) = 1
                    /\ about[1].source_id = child.id
                    /\ about[1].target_id = parent.id
                    /\ about[1].relationship_type = "parent"
                    /\ about[1].confidence = 8500

\* one entity's id occurs in the concatenated notes of the other
IdInNotes(a, b) ==
    Contains(Join(" ", a.notes), b.id) \/ Contains(Join(" ", b.notes), a.id)

\* one entity's name, of more than five characters, occurs in the
\* concatenated notes of the other, whatever the case of the letters
NameInNotes(a, b) ==
    \/ Len(b.name) > 5 /\ Contains(Lower(Join(" ", a.notes)), Lower(b.name))
    \/ Len(a.name) > 5 /\ Contains(Lower(Join(" ", b.notes)), Lower(a.name))

(* C30: in the cross-reference heuristic an id match in either direction   *)
(* comes before every name match: the result is 0.9 when the id of either  *)
(* entity occurs in the notes of the other, and 0.7 only when no id        *)
(* matches and a name of more than five characters occurs in the notes of  *)
(* the other; a pair that reaches the heuristic with an id match gets a    *)
(* suggestion of 0.9.                                                      *)
C30_IdBeforeName ==
    last.op = "suggest_relationships"
    => \A i, j \in DOMAIN workstreams :
          i # j =>
          LET a == workstreams[i]
              b == workstreams[j]
              cross == _cross_reference_heuristic(a, b)
              about == SuggestionsAbout(last.result, a, b)
          IN  /\ IdInNotes(a, b) => (IsSome(cross) /\ Val(cross).confidence = 9000)
              /\ (IsSome(cross) /\ Val(cross).confidence # 9000)
                 => /\ Val(cross).confidence = 7000
                    /\ ~IdInNotes(a, b)
                    /\ NameInNotes(a, b)
              /\ (/\ i < j
                  /\ ~Linked(a, b)
                  /\ parent_heuristics(a, b) = Nil
                  /\ parent_heuristics(b, a) = Nil
                  /\ IdInNotes(a, b))
                 => /\ Len(about) = 1
                    /\ about[1].relationship_type = "related"
                    /\ about[1].confidence = 9000

\* an id match and a name match on one pair, and the suggestion is of 0.9
C30_Witness ==
    /\ last.op = "suggest_relationships"
    /\ \E p \in Pairs(workstreams) :
          LET a == workstreams[p[1]]
              b == workstreams[p[2]]
              about == SuggestionsAbout(last.result, a, b)
          IN  /\ IdInNotes(a, b)
              /\ NameInNotes(a, b)
              /\ Len(about) = 1
              /\ about[1].relationship_type = "related"
              /\ about[1].confidence = 9000

(* C28: a parent_id that names no entity of the store is tolerated, and    *)
(* its holder is shown like a root: after any sequence of operations every *)
(* entity of the store is reached in the tree view, from the roots along   *)
(* the children filed under the id of each entity reached.                 *)
C28_AllShownInTree == Keys(workstreams) \subseteq cmd_tree(workstreams)

\* the entities of a dict other than the one of the id
Except(ws, id) == SelectSeq(ws, LAMBDA w : w.id # id)

(* C29: the instances on one file do not coordinate.  When the instance    *)
(* that waits wrote the file last and the instance that runs holds another *)
(* snapshot (it has not read the file since), a mutation by the instance   *)
(* that runs leaves in the file exactly the snapshot of that instance:     *)
(* what it held before, changed at the entity of the call and nowhere      *)
(* else, so that what the other instance had written is gone.              *)
C29_LastWriterWins ==
    [][(/\ \/ Called("create")
           \/ Called("add_note") /\ last'.result = "ok"
           \/ Called("delete") /\ last'.result = "true"
        /\ file.exists
        /\ file = SaveFile(other.workstreams)
        /\ other.workstreams # workstreams)
          => /\ file' = SaveFile(workstreams')
             /\ Except(workstreams', last'.id) = Except(workstreams, last'.id)]_vars

\* X created an entity and then Y, which held nothing, created another: the
\* file holds the entity of Y and not the entity of X
C29_Witness ==
    /\ nops = 2
    /\ last.op = "create"
    /\ workstreams # <<>>
    /\ other.workstreams # <<>>
    /\ Keys(other.workstreams) \cap Keys(workstreams) = {}
    /\ file = SaveFile(workstreams)
    /\ \A id \in Keys(other.workstreams) : id \notin Keys(LoadFile(file, clock))

====
